---- MODULE Spec2Model ----
(***************************************************************************)
(* A model of the kv store (src/kv.go): the update queue served by the     *)
(* readUpdates goroutine, the write-ahead log written by appendUpdate, and  *)
(* the replay of that log by NewStore / replayUpdatesFromLog.               *)
(*                                                                         *)
(* The store is instantiated as NewStore[string, any].  The log file is a   *)
(* sequence of chunks of bytes; one record is the JSON text                 *)
(*     {"UpdateType":t,"Key":k,"Value":v}                                   *)
(* followed by the newline chunk.                                           *)
(***************************************************************************)
EXTENDS Integers, Sequences, FiniteSets, TLC

\* ------------------------------------------------------------------ bounds
\* Total number of Set/Unset calls made in one behaviour.
MaxCalls == 2
\* Number of times NewStore is called again on the same log path.
MaxRestarts == 1
\* Number of I/O operations on the log file that the system fails in one
\* behaviour (an open, a write or a read).
MaxFaults == 1

\* ------------------------------------------------------------ the universe
Callers == {"c1", "c2"}
Replay == "replay"
Procs == Callers \cup {Replay}

Keys == {"a", "b"}
\* Big is a string of 64 KiB; Unenc is a value json.Marshal rejects (a NaN,
\* a func, a chan); Zero is the zero value of V (nil).
Big == "big"
Unenc == "unenc"
Zero == "nil"
Values == {"x", Big, Unenc}

\* updateType (src/kv.go lines 43-48)
set == 0
unset == 1
UnknownType == 2

LogFileName == "kv.log"

Nil == "nil"
ErrNoLog == "Failed to append update, store has no log"
ErrMarshal == "Failed to marshal update into JSON for the log"
ErrShortWrite == "write failed"
ErrUnknownType == "Unknown update type"
ErrSyntax == "json: cannot unmarshal"
ErrOpen == "open failed"
ErrTooLong == "bufio.Scanner: token too long"
ErrRead == "read failed"

\* bufio.MaxScanTokenSize, the limit of the Scanner made by bufio.NewScanner.
MaxScanTokenSize == 65536

\* ------------------------------------------------------------------- codec
\* The log file is a sequence of chunks of bytes.  A chunk is the JSON text of
\* one update, the front part of such a text (what a write that failed half
\* way left in the file), or the newline.
NL == "\n"

\* A Go string as a JSON string literal.
JsonString(s) == "\"" \o s \o "\""

\* The UpdateType field, a uint8, as a JSON number.
TypeTag(t) == CASE t = 0 -> "0" [] t = 1 -> "1" [] t = 2 -> "2"

\* A value of type any as JSON: nil is null, a string is a string literal.
JsonValue(v) == IF v = Zero THEN "null" ELSE JsonString(v)

\* json.Marshal(u) (line 131): only the exported fields UpdateType, Key and
\* Value are encoded; append and result are unexported and are left out.
Marshalable(u) == u.Value # Unenc
MarshalFront(u) ==
    "{\"UpdateType\":" \o TypeTag(u.UpdateType) \o ",\"Key\":" \o JsonString(u.Key)
Marshal(u) == MarshalFront(u) \o ",\"Value\":" \o JsonValue(u.Value) \o "}"

\* What WriteString(fmt.Sprintf("%s\n", json)) (line 136) puts in the file when
\* it stops after nothing, after the front of the JSON text, after the whole
\* text, or after the text and its newline (the only case without an error).
WriteOutcomes == {"none", "front", "text", "line"}
Written(u, n) ==
    CASE n = "none" -> <<>>
      [] n = "front" -> <<MarshalFront(u)>>
      [] n = "text" -> <<Marshal(u)>>
      [] n = "line" -> <<Marshal(u), NL>>
LogLine(u) == Written(u, "line")

\* The nil channel of a zero update, and the one channel replay makes.
NoChan == <<Nil, 0>>
ReplayChan == <<Replay, 0>>

\* The JSON texts json.Unmarshal accepts for an update[string, any]: an
\* object with a uint8, a string and a string or null.
JsonTypes == {0, 1, 2}
JsonStrings == {"x", Big}
Fields ==
    [UpdateType : JsonTypes, Key : Keys, Value : JsonStrings \cup {Zero}]

\* json.Unmarshal(line, &update) (line 155) succeeds on one complete object
\* and fails on a cut-off text and on two texts in one line.
Decodable(line) ==
    /\ Len(line) = 1
    /\ \E f \in Fields : Marshal(f) = line[1]

\* Mutant of Unmarshal: append were an exported field, written as true.
UnmarshalDurable(line) ==
    LET f == CHOOSE g \in Fields : Marshal(g) = line[1]
    IN [UpdateType |-> f.UpdateType, Key |-> f.Key, Value |-> f.Value,
        append |-> TRUE, result |-> NoChan]

\* The update json.Unmarshal fills in: the unexported fields keep their zero
\* values, so append is false and result is nil.
Unmarshal(line) ==
    LET f == CHOOSE g \in Fields : Marshal(g) = line[1]
    IN [UpdateType |-> f.UpdateType, Key |-> f.Key, Value |-> f.Value,
        append |-> FALSE, result |-> NoChan]

\* ----------------------------------------------------------- bufio.Scanner
\* bufio.ScanLines: the file cut at each newline; a last line without a
\* newline is a token too when it is not empty.
RECURSIVE ScanLines(_)
ScanLines(file) ==
    IF file = <<>> THEN <<>>
    ELSE IF \E i \in 1..Len(file) : file[i] = NL
         THEN LET i == CHOOSE j \in 1..Len(file) :
                          /\ file[j] = NL
                          /\ \A m \in 1..(j - 1) : file[m] # NL
              IN <<SubSeq(file, 1, i - 1)>> \o ScanLines(SubSeq(file, i + 1, Len(file)))
         ELSE <<file>>

\* The number of bytes of a Go string of the model, and of a chunk: Big stands
\* for a string of 64 KiB, every other text is far shorter than that.
StrLen(s) == IF s = Big THEN 65536 ELSE 1
ChunkBytes(chunk) ==
    IF \E f \in Fields : f.Value = Big /\ Marshal(f) = chunk
    THEN StrLen(Big) + 34
    ELSE 35

RECURSIVE LineBytes(_)
LineBytes(line) ==
    IF line = <<>> THEN 0 ELSE ChunkBytes(Head(line)) + LineBytes(Tail(line))

\* Scan gives up with ErrTooLong on a line that does not fit its buffer.
TooLong(line) == LineBytes(line) >= MaxScanTokenSize

\* ------------------------------------------------------------------- state
VARIABLES
    logPath,    \* options.logPath: "" for a store without a log
    log,        \* s.log: "nil" or "open"
    logFile,    \* the content of the file at logPath, a sequence of tokens
    data,       \* s.data, a function from the keys present to their values
    pc,         \* where each caller, and NewStore's replay, stands
    upd,        \* the update each process has built for queueUpdate
    ret,        \* what the last Set/Unset of each caller returned
    scanIdx,    \* the line of the log the scanner of replay is at
    scanErr,    \* the error the scanner stopped with (scanner.Err())
    spc,        \* where the readUpdates goroutine stands
    cur,        \* the update readUpdates took from s.updates
    res,        \* the updateResult readUpdates is sending
    calls,      \* the number of Set/Unset calls made so far
    restarts,   \* the number of times NewStore was called again
    faults,     \* the number of I/O operations that failed so far
    hist,       \* history: what readUpdates did, in order, on this store
    callsOk,    \* history: every Set/Unset on this store returned nil
    before,     \* history: the map when each caller made its last call
    taken,      \* history: the map when readUpdates took cur from the queue
    prev,       \* history: the store before the last NewStore
    rd,         \* a goroutine that reads the store with Get / GetAll
    stopped     \* history: where the store before stood when its process stopped

vars == <<logPath, log, logFile, data, pc, upd, ret, scanIdx, scanErr, spc,
          cur, res, calls, restarts, faults, hist, callsOk, before, taken, prev,
          rd, stopped>>

EmptyMap == [k \in {} |-> Zero]
ZeroUpdate ==
    [UpdateType |-> 0, Key |-> "", Value |-> Zero, append |-> FALSE, result |-> NoChan]
NoResult == [ok |-> FALSE, err |-> Nil]
NoPrev == [built |-> FALSE, data |-> EmptyMap, callsOk |-> FALSE, logFile |-> <<>>]
\* The reader before its first read; no stop of a process so far.
NoRead == [pc |-> "idle", key |-> Nil, at |-> 0, snap |-> EmptyMap,
           val |-> [value |-> Zero, found |-> FALSE, all |-> EmptyMap, fatal |-> FALSE]]
NoStop == [crashed |-> FALSE, acked |-> EmptyMap, cur |-> ZeroUpdate, spc |-> "recv"]

\* Files a store may find at its log path: what earlier runs appended, a file
\* whose last write was cut short, a file written by a later version of the
\* format, a file damaged in the middle.
RecSetAX == [ZeroUpdate EXCEPT !.Key = "a", !.Value = "x"]
RecSetBX == [ZeroUpdate EXCEPT !.Key = "b", !.Value = "x"]
RecUnknownB == [ZeroUpdate EXCEPT !.UpdateType = UnknownType, !.Key = "b", !.Value = "x"]
InitLogs ==
    { <<>>,
      LogLine(RecSetAX) \o LogLine(RecUnknownB) \o LogLine(RecSetBX),
      LogLine(RecSetAX) \o Written(RecSetBX, "front") }

\* NewStore has made the store and started readUpdates (lines 68-75).
Init ==
    /\ logPath \in {"", LogFileName}
    /\ logFile \in (IF logPath = "" THEN {<<>>} ELSE InitLogs)
    /\ log = "nil"
    /\ data = EmptyMap
    /\ pc = [p \in Procs |-> IF p = Replay
                             THEN (IF logPath = "" THEN "ready" ELSE "open")
                             ELSE "idle"]
    /\ upd = [p \in Procs |-> [ZeroUpdate EXCEPT !.result = <<p, 0>>]]
    /\ ret = [c \in Callers |-> Nil]
    /\ scanIdx = 1
    /\ scanErr = Nil
    /\ spc = "recv"
    /\ cur = ZeroUpdate
    /\ res = NoResult
    /\ calls = 0
    /\ restarts = 0
    /\ faults = 0
    /\ hist = <<>>
    /\ callsOk = TRUE
    /\ before = [c \in Callers |-> EmptyMap]
    /\ taken = EmptyMap
    /\ prev = [NoPrev EXCEPT !.logFile = logFile]
    /\ rd = NoRead
    /\ stopped = NoStop

\* ------------------------------------------------------------------ facade
\* Get (lines 93-96): a lookup in the map.
Get(d, key) ==
    IF key \in DOMAIN d THEN [value |-> d[key], found |-> TRUE]
    ELSE [value |-> Zero, found |-> FALSE]

\* Mutant of NewChan: the callers use one result channel of the store.
NewChanShared(c) == <<"shared", upd[c].result[2] + 1>>

\* The fresh channel make(chan (updateResult)) gives the next call of c.
NewChan(c) == <<c, upd[c].result[2] + 1>>

\* The mutation a process is submitting, named for the history.
MutId(p) == IF p = Replay THEN <<Replay, scanIdx>> ELSE upd[p].result
CurId == IF cur.result = ReplayChan THEN <<Replay, scanIdx>> ELSE cur.result

\* A step of readUpdates on mutation id; pend is the set of callers blocked in
\* their send on s.updates when the step was taken.
Event(e, id, durable, pend) == [ev |-> e, id |-> id, dur |-> durable, pend |-> pend]
Blocked(p) == {q \in Callers \ {p} : pc[q] = "send"}

\* Set (lines 98-101) up to the send on s.updates in queueUpdate.
Set(c, key, value) ==
    /\ pc[c] = "idle"
    /\ pc[Replay] = "ready"
    /\ calls < MaxCalls
    /\ upd' = [upd EXCEPT ![c] = [UpdateType |-> 0, Key |-> key, Value |-> value,
                                  append |-> (log # "nil"), result |-> NewChan(c)]]
    /\ pc' = [pc EXCEPT ![c] = "send"]
    /\ calls' = calls + 1
    /\ before' = [before EXCEPT ![c] = data]
    /\ UNCHANGED <<rd, stopped, logPath, log, logFile, data, ret, scanIdx, scanErr, spc, cur,
                   res, restarts, faults, hist, callsOk, taken, prev>>

\* Unset (lines 103-107) up to the send on s.updates in queueUpdate.
Unset(c, key) ==
    /\ pc[c] = "idle"
    /\ pc[Replay] = "ready"
    /\ calls < MaxCalls
    /\ upd' = [upd EXCEPT ![c] = [UpdateType |-> 1, Key |-> key, Value |-> Zero,
                                  append |-> (log # "nil"), result |-> NewChan(c)]]
    /\ pc' = [pc EXCEPT ![c] = "send"]
    /\ calls' = calls + 1
    /\ before' = [before EXCEPT ![c] = data]
    /\ UNCHANGED <<rd, stopped, logPath, log, logFile, data, ret, scanIdx, scanErr, spc, cur,
                   res, restarts, faults, hist, callsOk, taken, prev>>

\* Mutant of QueueUpdateReturn: the error of the result is dropped.
QueueUpdateReturnNil(result) == Nil

\* What queueUpdate returns for the result it received (lines 118-122).
QueueUpdateReturn(result) ==
    IF ~result.ok /\ result.err # Nil THEN result.err ELSE Nil

\* -------------------------------------------------------------- readUpdates
\* Mutant of MapSet: the zero value is stored.
MapSetZero(d, key, value) ==
    [x \in DOMAIN d \cup {key} |-> IF x = key THEN Zero ELSE d[x]]

\* The map after s.data[key] = value (line 180).
MapSet(d, key, value) ==
    [x \in DOMAIN d \cup {key} |-> IF x = key THEN value ELSE d[x]]

\* Mutant of MapDelete: the key keeps an entry, with the zero value.
MapDeleteZero(d, key) == [x \in DOMAIN d |-> IF x = key THEN Zero ELSE d[x]]

\* The map after delete(s.data, key) (line 183).
MapDelete(d, key) == [x \in DOMAIN d \ {key} |-> d[x]]

\* Mutant of Receive: the loop takes the next update while it still works on
\* the one before.
ReceiveAnyTime(p) ==
    /\ pc[p] = "send"
    /\ cur' = upd[p]
    /\ pc' = [pc EXCEPT ![p] = "wait"]
    /\ spc' = IF upd[p].append THEN "append" ELSE "apply"
    /\ hist' = Append(hist, Event("recv", MutId(p), upd[p].append, Blocked(p)))
    /\ taken' = data
    /\ UNCHANGED <<rd, stopped, logPath, log, logFile, data, upd, ret, scanIdx, scanErr, res,
                   calls, restarts, faults, callsOk, before, prev>>

\* `for update := range s.updates` meets `s.updates <- u` of process p: the
\* channel is unbuffered, so the send and the receive are one step.
Receive(p) ==
    /\ spc = "recv"
    /\ pc[p] = "send"
    /\ cur' = upd[p]
    /\ pc' = [pc EXCEPT ![p] = "wait"]
    /\ spc' = IF upd[p].append THEN "append" ELSE "apply"
    /\ hist' = Append(hist, Event("recv", MutId(p), upd[p].append, Blocked(p)))
    /\ taken' = data
    /\ UNCHANGED <<rd, stopped, logPath, log, logFile, data, upd, ret, scanIdx, scanErr, res,
                   calls, restarts, faults, callsOk, before, prev>>

\* Mutant of AppendUpdate: the error of WriteString is not looked at.
AppendUpdateIgnoreError ==
    /\ spc = "append"
    /\ \E n \in WriteOutcomes :
         /\ n # "line" => faults < MaxFaults
         /\ faults' = IF n # "line" THEN faults + 1 ELSE faults
         /\ logFile' = logFile \o Written(cur, n)
    /\ res' = res
    /\ spc' = "apply"
    /\ hist' = Append(hist, Event("append", CurId, cur.append, {}))
    /\ UNCHANGED <<rd, stopped, logPath, log, data, pc, upd, ret, scanIdx, scanErr, cur, calls,
                   restarts, callsOk, before, taken, prev>>

\* Mutant of AppendUpdate: on an error the loop continues without sending a
\* result.
AppendUpdateNoReply ==
    /\ spc = "append"
    /\ \E n \in WriteOutcomes :
         LET err == IF log = "nil" THEN ErrNoLog
                    ELSE IF ~Marshalable(cur) THEN ErrMarshal
                    ELSE IF n # "line" THEN ErrShortWrite
                    ELSE Nil
             written == IF err \in {ErrNoLog, ErrMarshal} THEN <<>>
                        ELSE Written(cur, n)
         IN /\ err = ErrShortWrite => faults < MaxFaults
            /\ faults' = IF err = ErrShortWrite THEN faults + 1 ELSE faults
            /\ logFile' = logFile \o written
            /\ res' = res
            /\ IF err # Nil
               THEN /\ spc' = "recv"
                    /\ hist' = Append(hist, Event("appendfail", CurId, cur.append, {}))
               ELSE /\ spc' = "apply"
                    /\ hist' = Append(hist, Event("append", CurId, cur.append, {}))
    /\ UNCHANGED <<rd, stopped, logPath, log, data, pc, upd, ret, scanIdx, scanErr, cur, calls,
                   restarts, callsOk, before, taken, prev>>

\* appendUpdate (lines 126-141) and the branch on its error (lines 170-176).
\* WriteString either writes the whole line or fails after a part of it.
AppendUpdate ==
    /\ spc = "append"
    /\ \E n \in WriteOutcomes :
         LET err == IF log = "nil" THEN ErrNoLog
                    ELSE IF ~Marshalable(cur) THEN ErrMarshal
                    ELSE IF n # "line" THEN ErrShortWrite
                    ELSE Nil
             written == IF err \in {ErrNoLog, ErrMarshal} THEN <<>>
                        ELSE Written(cur, n)
         IN /\ err = ErrShortWrite => faults < MaxFaults
            /\ faults' = IF err = ErrShortWrite THEN faults + 1 ELSE faults
            /\ logFile' = logFile \o written
            /\ IF err # Nil
               THEN /\ res' = [ok |-> FALSE, err |-> err]
                    /\ spc' = "result"
                    /\ hist' = Append(hist, Event("appendfail", CurId, cur.append, {}))
               ELSE /\ res' = res
                    /\ spc' = "apply"
                    /\ hist' = Append(hist, Event("append", CurId, cur.append, {}))
    /\ UNCHANGED <<rd, stopped, logPath, log, data, pc, upd, ret, scanIdx, scanErr, cur, calls,
                   restarts, callsOk, before, taken, prev>>

\* Mutant of ApplyUpdate: the result is sent before the map is written.
ApplyUpdateResultFirst ==
    /\ spc = "apply"
    /\ res' = [ok |-> TRUE, err |-> Nil]
    /\ hist' = Append(hist, Event("apply", CurId, cur.append, {}))
    /\ spc' = "result"
    /\ UNCHANGED <<rd, stopped, logPath, log, logFile, data, pc, upd, ret, scanIdx, scanErr,
                   cur, calls, restarts, faults, callsOk, before, taken, prev>>

\* Mutant of ApplyUpdate: the switch has no default branch of its own, an
\* unknown type is handled as set.
ApplyUpdateDefaultSet ==
    /\ spc = "apply"
    /\ IF cur.UpdateType = unset
       THEN data' = MapDelete(data, cur.Key)
       ELSE data' = MapSet(data, cur.Key, cur.Value)
    /\ res' = [ok |-> TRUE, err |-> Nil]
    /\ hist' = Append(hist, Event("apply", CurId, cur.append, {}))
    /\ spc' = "result"
    /\ UNCHANGED <<rd, stopped, logPath, log, logFile, pc, upd, ret, scanIdx, scanErr, cur,
                   calls, restarts, faults, callsOk, before, taken, prev>>

\* The switch on update.UpdateType (lines 178-188), up to the send of the result.
ApplyUpdate ==
    /\ spc = "apply"
    /\ CASE cur.UpdateType = set ->
              /\ data' = MapSet(data, cur.Key, cur.Value)
              /\ res' = [ok |-> TRUE, err |-> Nil]
              /\ hist' = Append(hist, Event("apply", CurId, cur.append, {}))
         [] cur.UpdateType = unset ->
              /\ data' = MapDelete(data, cur.Key)
              /\ res' = [ok |-> TRUE, err |-> Nil]
              /\ hist' = Append(hist, Event("apply", CurId, cur.append, {}))
         [] OTHER ->
              /\ data' = data
              /\ res' = [ok |-> FALSE, err |-> ErrUnknownType]
              /\ hist' = Append(hist, Event("reject", CurId, cur.append, {}))
    /\ spc' = "result"
    /\ UNCHANGED <<rd, stopped, logPath, log, logFile, pc, upd, ret, scanIdx, scanErr, cur,
                   calls, restarts, faults, callsOk, before, taken, prev>>

\* Mutant of Deliver: replay looks at what queueUpdate returns and gives up
\* on a failure.
DeliverReplayChecks(p) ==
    /\ spc = "result"
    /\ pc[p] = "wait"
    /\ upd[p].result = cur.result
    /\ spc' = "recv"
    /\ hist' = Append(hist, Event(IF res.ok THEN "ok" ELSE "fail", CurId, cur.append, {}))
    /\ IF p = Replay
       THEN /\ pc' = [pc EXCEPT ![p] = IF QueueUpdateReturn(res) = Nil THEN "scan" ELSE "failed"]
            /\ scanErr' = QueueUpdateReturn(res)
            /\ scanIdx' = scanIdx + 1
            /\ UNCHANGED <<ret, callsOk>>
       ELSE /\ pc' = [pc EXCEPT ![p] = "idle"]
            /\ ret' = [ret EXCEPT ![p] = QueueUpdateReturn(res)]
            /\ callsOk' = (callsOk /\ QueueUpdateReturn(res) = Nil)
            /\ UNCHANGED <<scanIdx, scanErr>>
    /\ cur' = ZeroUpdate
    /\ res' = NoResult
    /\ UNCHANGED <<rd, stopped, logPath, log, logFile, data, upd, calls, restarts,
                   faults, before, taken, prev>>

\* Mutant of Deliver: the result channel has a buffer, the loop goes on
\* before the result is received.
DeliverNoWait(p) ==
    /\ spc = "result"
    /\ pc[p] = "wait"
    /\ upd[p].result = cur.result
    /\ spc' = "recv"
    /\ UNCHANGED <<rd, stopped, logPath, log, logFile, data, pc, upd, ret, scanIdx, scanErr,
                   cur, res, calls, restarts, faults, hist, callsOk, before,
                   taken, prev>>

\* `update.result <- updateResult{...}` meets `result := <-u.result` of the
\* process p that waits on that channel (line 116); queueUpdate returns.  A
\* caller is back from Set/Unset; replay drops the error and scans on (line
\* 160).  The loop variable of readUpdates is dead until the next receive.
Deliver(p) ==
    /\ spc = "result"
    /\ pc[p] = "wait"
    /\ upd[p].result = cur.result
    /\ spc' = "recv"
    /\ hist' = Append(hist, Event(IF res.ok THEN "ok" ELSE "fail", CurId, cur.append, {}))
    /\ IF p = Replay
       THEN /\ pc' = [pc EXCEPT ![p] = "scan"]
            /\ scanIdx' = scanIdx + 1
            /\ UNCHANGED <<ret, callsOk>>
       ELSE /\ pc' = [pc EXCEPT ![p] = "idle"]
            /\ ret' = [ret EXCEPT ![p] = QueueUpdateReturn(res)]
            /\ callsOk' = (callsOk /\ QueueUpdateReturn(res) = Nil)
            /\ UNCHANGED scanIdx
    /\ cur' = ZeroUpdate
    /\ res' = NoResult
    /\ UNCHANGED <<rd, stopped, logPath, log, logFile, data, upd, scanErr, calls, restarts,
                   faults, before, taken, prev>>

\* ------------------------------------------------------------------ NewStore
\* os.OpenFile (lines 79-84): the file is created when missing and never
\* truncated; a failure makes NewStore return (nil, err).
OpenFile ==
    /\ pc[Replay] = "open"
    /\ \E ok \in BOOLEAN :
         IF ok THEN /\ log' = "open"
                    /\ pc' = [pc EXCEPT ![Replay] = "scan"]
                    /\ scanErr' = Nil
                    /\ faults' = faults
               ELSE /\ faults < MaxFaults
                    /\ faults' = faults + 1
                    /\ log' = log
                    /\ pc' = [pc EXCEPT ![Replay] = "failed"]
                    /\ scanErr' = ErrOpen
    /\ UNCHANGED <<rd, stopped, logPath, logFile, data, upd, ret, scanIdx, spc, cur, res,
                   calls, restarts, hist, callsOk, before, taken, prev>>

\* One turn of `for scanner.Scan()` in replayUpdatesFromLog (lines 152-161), up
\* to the send in queueUpdate.  Scan returns false at the end of the file, on a
\* read error and on a line that is too long; the loop then ends and replay
\* returns nil (line 163) without looking at scanner.Err(), so NewStore
\* returns the store (line 90).  A line json.Unmarshal rejects makes replay,
\* and NewStore, return the error (lines 155-157, 85-87).
replayUpdatesFromLog ==
    /\ pc[Replay] = "scan"
    /\ \E readFails \in BOOLEAN :
         LET lines == ScanLines(logFile)
             atEnd == scanIdx > Len(lines)
             stop == IF readFails THEN ErrRead
                     ELSE IF atEnd THEN Nil
                     ELSE IF TooLong(lines[scanIdx]) THEN ErrTooLong
                     ELSE "go on"
         IN /\ readFails => faults < MaxFaults
            /\ faults' = IF readFails THEN faults + 1 ELSE faults
            /\ IF stop # "go on"
               THEN /\ pc' = [pc EXCEPT ![Replay] = "ready"]
                    /\ scanErr' = stop
                    /\ upd' = upd
               ELSE IF ~Decodable(lines[scanIdx])
               THEN /\ pc' = [pc EXCEPT ![Replay] = "failed"]
                    /\ scanErr' = ErrSyntax
                    /\ upd' = upd
               ELSE /\ pc' = [pc EXCEPT ![Replay] = "send"]
                    /\ scanErr' = Nil
                    /\ upd' = [upd EXCEPT ![Replay] =
                                 [Unmarshal(lines[scanIdx]) EXCEPT !.result = ReplayChan]]
    /\ UNCHANGED <<rd, stopped, logPath, log, logFile, data, ret, scanIdx, spc, cur, res,
                   calls, restarts, hist, callsOk, before, taken, prev>>

\* NewStore is called again with the same LogPath, once the callers of the
\* store before are back: a new map, a new readUpdates goroutine, a new
\* file handle (lines 68-79).
NewStore ==
    /\ logPath # ""
    /\ restarts < MaxRestarts
    /\ pc[Replay] \in {"ready", "failed"}
    /\ \A c \in Callers : pc[c] = "idle"
    /\ spc = "recv"
    /\ prev' = [built |-> (pc[Replay] = "ready"), data |-> data,
                callsOk |-> callsOk, logFile |-> logFile]
    /\ restarts' = restarts + 1
    /\ data' = EmptyMap
    /\ log' = "nil"
    /\ pc' = [p \in Procs |-> IF p = Replay THEN "open" ELSE "idle"]
    /\ upd' = [p \in Procs |-> [ZeroUpdate EXCEPT !.result = <<p, 0>>]]
    /\ ret' = [c \in Callers |-> Nil]
    /\ before' = [c \in Callers |-> EmptyMap]
    /\ scanIdx' = 1
    /\ scanErr' = Nil
    /\ cur' = ZeroUpdate
    /\ res' = NoResult
    /\ hist' = <<>>
    /\ taken' = EmptyMap
    /\ callsOk' = TRUE
    /\ stopped' = NoStop
    /\ UNCHANGED <<rd, logPath, logFile, spc, calls, faults>>

\* ------------------------------------------------------------------- readers
\* What a read gets when the Go runtime finds the map written during it: the
\* program stops with "fatal error: concurrent map read and map write".
Fatal == [value |-> Zero, found |-> FALSE, all |-> EmptyMap, fatal |-> TRUE]
\* The reader of GetAll reads the whole map.
AllKeys == "*"

\* What a reader of key sees in map d: Get(key), or the map GetAll returned.
Seen(d, key) ==
    IF key = AllKeys
    THEN [value |-> Zero, found |-> FALSE, all |-> d, fatal |-> FALSE]
    ELSE [value |-> Get(d, key).value, found |-> Get(d, key).found,
          all |-> EmptyMap, fatal |-> FALSE]

\* The number of map writes readUpdates has made in this store.
Writes == Cardinality({i \in 1..Len(hist) : hist[i].ev = "apply"})

\* A map write of readUpdates has happened since the read began.
Overlapped == Writes > rd.at

\* Mutant of GetBegin: a read is made only while readUpdates is at its
\* receive, as if it went through the queue.
GetBeginSerialized(key) ==
    /\ pc[Replay] = "ready"
    /\ spc = "recv"
    /\ rd.pc = "idle"
    /\ rd' = [rd EXCEPT !.pc = "reading", !.key = key, !.at = Writes, !.snap = data]
    /\ UNCHANGED <<stopped, logPath, log, logFile, data, pc, upd, ret, scanIdx,
                   scanErr, spc, cur, res, calls, restarts, faults, hist, callsOk,
                   before, taken, prev>>

\* A goroutine that holds the store calls Get(key) (lines 93-96), or calls
\* GetAll() and reads the map it returned (lines 109-111): its read of s.data
\* begins.  Neither takes a lock or sends anything to readUpdates.
GetBegin(key) ==
    /\ pc[Replay] = "ready"
    /\ rd.pc = "idle"
    /\ rd' = [rd EXCEPT !.pc = "reading", !.key = key, !.at = Writes, !.snap = data]
    /\ UNCHANGED <<stopped, logPath, log, logFile, data, pc, upd, ret, scanIdx,
                   scanErr, spc, cur, res, calls, restarts, faults, hist, callsOk,
                   before, taken, prev>>

\* The read ends.  Without a write in between it gives what the map holds.
\* With one it is a data race: the reader gets what the map held before, what
\* it holds now, or the runtime stops the program with a fatal error.
GetEnd ==
    /\ rd.pc = "reading"
    /\ \E v \in IF Overlapped
                THEN {Seen(rd.snap, rd.key), Seen(data, rd.key), Fatal}
                ELSE {Seen(data, rd.key)} :
         rd' = [NoRead EXCEPT !.val = v]
    /\ UNCHANGED <<stopped, logPath, log, logFile, data, pc, upd, ret, scanIdx,
                   scanErr, spc, cur, res, calls, restarts, faults, hist, callsOk,
                   before, taken, prev>>

\* The program that holds a store with a log stops (crash, kill, power loss)
\* at any point between two steps of readUpdates, callers being anywhere in
\* Set/Unset; what WriteString had written is in the file.  NewStore is then
\* called on the same LogPath by a new program (lines 68-79).  stopped keeps
\* what the map held when readUpdates last took an update (all outcomes given
\* before that were received) and the update it was working on.
Crash ==
    /\ logPath # ""
    /\ log = "open"
    /\ restarts < MaxRestarts
    /\ pc[Replay] = "ready"
    /\ stopped' = [crashed |-> TRUE,
                   acked |-> IF spc = "recv" THEN data ELSE taken,
                   cur |-> cur,
                   spc |-> spc]
    /\ prev' = [built |-> TRUE, data |-> data, callsOk |-> callsOk, logFile |-> logFile]
    /\ restarts' = restarts + 1
    /\ data' = EmptyMap
    /\ log' = "nil"
    /\ spc' = "recv"
    /\ pc' = [p \in Procs |-> IF p = Replay THEN "open" ELSE "idle"]
    /\ upd' = [p \in Procs |-> [ZeroUpdate EXCEPT !.result = <<p, 0>>]]
    /\ ret' = [c \in Callers |-> Nil]
    /\ before' = [c \in Callers |-> EmptyMap]
    /\ scanIdx' = 1
    /\ scanErr' = Nil
    /\ cur' = ZeroUpdate
    /\ res' = NoResult
    /\ hist' = <<>>
    /\ taken' = EmptyMap
    /\ callsOk' = TRUE
    /\ UNCHANGED <<rd, logPath, logFile, calls, faults>>

\* --------------------------------------------------------------------- spec
Next ==
    \/ \E c \in Callers, k \in Keys, v \in Values : Set(c, k, v)
    \/ \E c \in Callers, k \in Keys : Unset(c, k)
    \/ \E p \in Procs : Receive(p)
    \/ AppendUpdate
    \/ ApplyUpdate
    \/ \E p \in Procs : Deliver(p)
    \/ OpenFile
    \/ replayUpdatesFromLog
    \/ NewStore

Spec == Init /\ [][Next]_vars

\* One store from NewStore to the end of the program: NewStore is not called
\* again on the log path.
NextRun ==
    \/ \E c \in Callers, k \in Keys, v \in Values : Set(c, k, v)
    \/ \E c \in Callers, k \in Keys : Unset(c, k)
    \/ \E p \in Procs : Receive(p)
    \/ AppendUpdate
    \/ ApplyUpdate
    \/ \E p \in Procs : Deliver(p)
    \/ OpenFile
    \/ replayUpdatesFromLog

SpecRun == Init /\ [][NextRun]_vars

\* One store, with the readUpdates goroutine scheduled again and again and
\* every call of the log file returning: a step of the loop that can be
\* taken is taken.
Fairness ==
    /\ WF_vars(\E p \in Procs : Receive(p))
    /\ WF_vars(AppendUpdate)
    /\ WF_vars(ApplyUpdate)
    /\ WF_vars(\E p \in Procs : Deliver(p))

\* The callers of SpecLive all work on one key.
HotKey == "a"
NextLive ==
    \/ \E c \in Callers, v \in Values : Set(c, HotKey, v)
    \/ \E c \in Callers : Unset(c, HotKey)
    \/ \E p \in Procs : Receive(p)
    \/ AppendUpdate
    \/ ApplyUpdate
    \/ \E p \in Procs : Deliver(p)
    \/ OpenFile
    \/ replayUpdatesFromLog

SpecLive == Init /\ [][NextLive]_vars /\ Fairness

\* One store with callers that set and unset one key while another goroutine
\* reads it with Get and GetAll.
NextRead ==
    \/ \E c \in Callers : Set(c, HotKey, "x")
    \/ \E c \in Callers : Unset(c, HotKey)
    \/ \E p \in Procs : Receive(p)
    \/ AppendUpdate
    \/ ApplyUpdate
    \/ \E p \in Procs : Deliver(p)
    \/ OpenFile
    \/ replayUpdatesFromLog
    \/ \E k \in {HotKey, AllKeys} : GetBegin(k)
    \/ GetEnd

SpecRead == Init /\ [][NextRead]_vars

\* A store whose program may stop at any point, NewStore being called
\* afterwards on the same log path.
NextCrash ==
    \/ \E c \in Callers, k \in Keys, v \in Values : Set(c, k, v)
    \/ \E c \in Callers, k \in Keys : Unset(c, k)
    \/ \E p \in Procs : Receive(p)
    \/ AppendUpdate
    \/ ApplyUpdate
    \/ \E p \in Procs : Deliver(p)
    \/ OpenFile
    \/ replayUpdatesFromLog
    \/ Crash

SpecCrash == Init /\ [][NextCrash]_vars

\* One goroutine uses the store and calls NewStore again on the log path.
Main == "c1"
NextSeq ==
    \/ \E k \in Keys, v \in Values : Set(Main, k, v)
    \/ \E k \in Keys : Unset(Main, k)
    \/ \E p \in {Main, Replay} : Receive(p)
    \/ AppendUpdate
    \/ ApplyUpdate
    \/ \E p \in {Main, Replay} : Deliver(p)
    \/ OpenFile
    \/ replayUpdatesFromLog
    \/ NewStore

SpecSeq == Init /\ [][NextSeq]_vars

TypeOK ==
    /\ logPath \in {"", LogFileName}
    /\ log \in {"nil", "open"}
    /\ spc \in {"recv", "append", "apply", "result"}
    /\ \A c \in Callers : pc[c] \in {"idle", "send", "wait"}
    /\ pc[Replay] \in {"open", "scan", "send", "wait", "ready", "failed"}
    /\ DOMAIN data \subseteq Keys
    /\ \A k \in DOMAIN data : data[k] \in Values \cup {Zero}
    /\ rd.pc \in {"idle", "reading"}
    /\ rd.key \in {Nil, HotKey, AllKeys}
    /\ stopped.crashed \in BOOLEAN
    /\ stopped.spc \in {"recv", "append", "apply", "result"}

\* ------------------------------------------------------- reading the history
\* The places of the history where event e of mutation id stands.
At(e, id) == {i \in 1..Len(hist) : hist[i].ev = e /\ hist[i].id = id}
Has(e, id) == At(e, id) # {}
Outcome(id) == At("ok", id) \cup At("fail", id)

\* Caller c is back from a Set/Unset on this store (its last call is upd[c]).
Returned(c) == pc[c] = "idle" /\ upd[c].result[2] > 0
\* No caller has called this store yet.
Fresh == \A c \in Callers : pc[c] = "idle" /\ upd[c].result[2] = 0
\* c is the only caller this store has had.
Alone(c) == \A d \in Callers \ {c} : pc[d] = "idle" /\ upd[d].result[2] = 0

\* The map shows the effect of update u.
Applied(u, d) ==
    IF u.UpdateType = set
    THEN Get(d, u.Key) = [value |-> u.Value, found |-> TRUE]
    ELSE ~Get(d, u.Key).found

\* The file ends with these chunks.
EndsWith(file, chunks) ==
    /\ Len(file) >= Len(chunks)
    /\ SubSeq(file, Len(file) - Len(chunks) + 1, Len(file)) = chunks

AppendErrs == {ErrNoLog, ErrMarshal, ErrShortWrite}

\* ------------------------------------------------------------------- claims
\* C1 (as claimed): after Set/Unset calls on a store with a log that all
\* returned nil, a store made afterwards from the same log path has the map the
\* first store ended with.  Stated for behaviours without any I/O failure.
C1_RoundTrip ==
    (/\ restarts > 0
     /\ pc[Replay] = "ready"
     /\ Fresh
     /\ prev.built
     /\ prev.callsOk
     /\ faults = 0)
    => data = prev.data

\* C2 (as claimed): with a single caller, after Set(k, v) returns Get(k) is
\* (v, true), after Unset(k) returns Get(k) is not found, and every other key
\* has the Get result it had before the call.
C2_GetAfterEveryCall ==
    \A c \in Callers :
        (Returned(c) /\ Alone(c)) =>
            /\ Applied(upd[c], data)
            /\ \A k \in Keys \ {upd[c].Key} : Get(data, k) = Get(before[c], k)

\* C2 (amended): with a single caller, after Set(k, v) returns nil Get(k) is
\* (v, true), after Unset(k) returns nil Get(k) is not found; after a call
\* that returns an error Get(k) is what it was before the call; every other
\* key has the Get result it had before the call.
C2_GetAfterCall ==
    \A c \in Callers :
        (Returned(c) /\ Alone(c)) =>
            /\ ret[c] = Nil => Applied(upd[c], data)
            /\ ret[c] # Nil => Get(data, upd[c].Key) = Get(before[c], upd[c].Key)
            /\ \A k \in Keys \ {upd[c].Key} : Get(data, k) = Get(before[c], k)

\* C2 witness: a single caller is back from an Unset that removed a key while
\* another key stayed in the map.
C2_Witness ==
    \E c \in Callers :
        /\ Returned(c) /\ Alone(c)
        /\ ret[c] = Nil
        /\ upd[c].UpdateType = unset
        /\ Get(before[c], upd[c].Key).found
        /\ ~Get(data, upd[c].Key).found
        /\ \E k \in Keys \ {upd[c].Key} : Get(data, k).found

\* C3: when every caller has made one Set on the same key of a store without
\* failures (no log, or values json.Marshal takes and no I/O failure), every
\* call has returned nil, and once all are back Get on that key finds a value
\* that is the value of one of the calls: the one applied last.
C3_ConcurrentSets ==
    \A k \in Keys :
        (/\ \A c \in Callers :
               /\ Returned(c)
               /\ upd[c].result[2] = 1
               /\ upd[c].UpdateType = set
               /\ upd[c].Key = k
               /\ upd[c].append => Marshalable(upd[c])
         /\ faults = 0)
        => /\ \A c \in Callers : ret[c] = Nil
           /\ Get(data, k).found
           /\ \E c \in Callers :
                /\ Get(data, k).value = upd[c].Value
                /\ \A d \in Callers \ {c} :
                     \A i \in At("apply", upd[c].result), j \in At("apply", upd[d].result) :
                        j < i

\* C3 witness: two callers were inside Set on the same key at the same time
\* with different values (one was blocked in its send when the other was
\* received), both are back, and the map holds the value received last.
C3_Witness ==
    \E k \in Keys, c \in Callers, d \in Callers :
        /\ c # d
        /\ \A e \in {c, d} :
             /\ Returned(e) /\ upd[e].result[2] = 1 /\ ret[e] = Nil
             /\ upd[e].UpdateType = set /\ upd[e].Key = k
        /\ upd[c].Value # upd[d].Value
        /\ Get(data, k) = [value |-> upd[c].Value, found |-> TRUE]
        /\ \E m \in At("recv", upd[d].result), n \in At("recv", upd[c].result) :
                c \in hist[m].pend /\ m < n

\* C4: at most one mutation is between its receipt by readUpdates and the
\* delivery of its outcome, it is the one readUpdates holds, and readUpdates
\* is back at the receive only when none is.
InFlight == {p \in Procs : pc[p] = "wait"}
C4_OneAtATime ==
    /\ Cardinality(InFlight) <= 1
    /\ spc = "recv" <=> InFlight = {}
    /\ \A p \in InFlight : upd[p].result = cur.result /\ upd[p] = cur

\* C4 witness: readUpdates is applying the mutation of one caller while the
\* other caller is blocked in its send.
C4_Witness ==
    \E c \in Callers, d \in Callers :
        /\ c # d
        /\ pc[c] = "wait" /\ spc = "apply"
        /\ pc[d] = "send"

\* C5: a mutation with the append flag is applied to the map, and gets a
\* success outcome, only after its whole line is at the end of the log.
C5_WriteAhead ==
    /\ (cur.append /\ (spc = "apply" \/ (spc = "result" /\ res.ok)))
         => EndsWith(logFile, LogLine(cur))
    /\ \A i \in 1..Len(hist) :
         (hist[i].dur /\ hist[i].ev \in {"apply", "ok"})
           => \E j \in 1..(i - 1) : hist[j].ev = "append" /\ hist[j].id = hist[i].id

\* C5 witness: a Set with the append flag has been applied and its success is
\* about to be delivered; its line ends the log.
C5_Witness ==
    /\ spc = "result" /\ res.ok /\ cur.append
    /\ cur.UpdateType = set
    /\ Applied(cur, data)
    /\ EndsWith(logFile, LogLine(cur))
    /\ Len(logFile) > Len(prev.logFile)

\* C6: a caller stays in Set/Unset until the outcome of its own mutation is
\* delivered, and a success outcome is sent only when the map shows the
\* mutation: a call that returned nil has its map update before its outcome.
C6_ReturnAfterApply ==
    /\ (spc = "result" /\ res.ok) => Applied(cur, data)
    /\ \A c \in Callers :
         /\ pc[c] \in {"send", "wait"} => Outcome(upd[c].result) = {}
         /\ pc[c] = "send" => ~Has("recv", upd[c].result)
         /\ Returned(c) =>
              /\ Cardinality(Outcome(upd[c].result)) = 1
              /\ ret[c] = Nil =>
                   \E i \in At("apply", upd[c].result), j \in At("ok", upd[c].result) :
                      i < j

\* C6 witness: a caller is back from a Set with nil, after the apply and the
\* delivery of that mutation.
C6_Witness ==
    \E c \in Callers :
        /\ Returned(c) /\ ret[c] = Nil
        /\ upd[c].UpdateType = set
        /\ Has("apply", upd[c].result)
        /\ Has("ok", upd[c].result)

\* C7: when appendUpdate fails for a mutation, the map is the one readUpdates
\* found when it took the mutation, no map update of that mutation ever
\* happens, and the Set/Unset that submitted it returns the append error.
C7_AppendFailureAborts ==
    /\ (spc = "result" /\ res.err \in AppendErrs) => (~res.ok /\ data = taken)
    /\ \A c \in Callers :
         (Returned(c) /\ Has("appendfail", upd[c].result)) =>
            /\ ret[c] \in AppendErrs
            /\ ~Has("apply", upd[c].result)
            /\ Alone(c) => data = before[c]

\* C7 witness: one caller is back with the marshal error and the other with
\* the write error, and the map still holds what replay put in it.
C7_Witness ==
    \E c \in Callers, d \in Callers :
        /\ Returned(c) /\ ret[c] = ErrMarshal
        /\ Returned(d) /\ ret[d] = ErrShortWrite
        /\ Has("appendfail", upd[c].result)
        /\ Has("appendfail", upd[d].result)
        /\ upd[d].UpdateType = unset
        /\ Get(data, upd[d].Key).found

\* C8 (as claimed): NewStore returns a store only when every line of the log
\* decodes into an update.  Stated for replays without a read failure.
C8_UndecodableLineFails ==
    (/\ pc[Replay] = "ready"
     /\ log = "open"
     /\ Fresh
     /\ scanErr # ErrRead)
    => \A i \in 1..Len(ScanLines(logFile)) : Decodable(ScanLines(logFile)[i])

\* C9: an update made from a log line has append unset, readUpdates never
\* calls appendUpdate for it, and when NewStore returns the file is what it
\* was when NewStore was called.
C9_ReplayNeverAppends ==
    /\ ~upd[Replay].append
    /\ cur.result = ReplayChan => ~cur.append
    /\ \A i \in 1..Len(hist) :
         hist[i].id[1] = Replay => (~hist[i].dur /\ hist[i].ev \notin {"append", "appendfail"})
    /\ Fresh => logFile = prev.logFile

\* C9 witness: the second NewStore on a log has returned, replay has applied
\* lines of it to the map, and the file still has those lines.
C9_Witness ==
    /\ restarts > 0
    /\ pc[Replay] = "ready"
    /\ Fresh
    /\ DOMAIN data # {}
    /\ logFile # <<>>
    /\ \E i \in 1..Len(hist) : hist[i].ev = "apply" /\ hist[i].id[1] = Replay

\* C10: every append, map update and outcome belongs to the mutation
\* readUpdates received last; a mutation is received only after the outcome
\* of every mutation received before it; appends and map updates happen in
\* the order of the receives; the mutations of one caller (and the lines of
\* the log in replay) are received, appended and applied in the order of its
\* calls.  Stated for the latest step of the history: every earlier step was
\* the latest one in an earlier state.
Work == {"append", "appendfail", "apply", "reject", "ok", "fail"}
C10_Order ==
    LET n == Len(hist) IN
    n > 0 =>
        LET e == hist[n]
            recvs == {j \in 1..(n - 1) : hist[j].ev = "recv"}
        IN /\ e.ev \in Work =>
                \E j \in recvs : hist[j].id = e.id /\ \A m \in recvs : m <= j
           /\ e.ev = "recv" =>
                \A j \in recvs : \E m \in Outcome(hist[j].id) : j < m
           /\ e.ev \in {"append", "apply"} =>
                \A j \in 1..(n - 1) :
                   hist[j].ev = e.ev =>
                      \E a \in At("recv", hist[j].id), b \in At("recv", e.id) : a < b
           /\ e.ev \in {"recv", "append", "apply"} =>
                \A j \in 1..(n - 1) :
                   (hist[j].ev = e.ev /\ hist[j].id[1] = e.id[1]) =>
                      hist[j].id[2] < e.id[2]

\* C10 witness: a caller made Set(k, v) and then Unset(k) on a store with a
\* log; both were appended and applied in that order and k is not in the map.
C10_Witness ==
    \E c \in Callers :
        /\ Returned(c) /\ upd[c].result[2] = 2 /\ ret[c] = Nil
        /\ upd[c].UpdateType = unset
        /\ ~Get(data, upd[c].Key).found
        /\ \E i \in At("apply", <<c, 1>>), j \in At("apply", <<c, 2>>) : i < j
        /\ \E i \in At("append", <<c, 1>>), j \in At("append", <<c, 2>>) : i < j
        /\ EndsWith(logFile, LogLine(upd[c]))

\* C11: an update whose UpdateType is neither set nor unset, once past the
\* append, gets the failure result "Unknown update type", queueUpdate returns
\* that error for it, the map is the one readUpdates found when it took the
\* update, and no map update of that mutation ever happens.
C11_UnknownKindRejected ==
    /\ (/\ spc = "result"
        /\ cur.UpdateType \notin {set, unset}
        /\ res.err \notin AppendErrs)
       => /\ ~res.ok
          /\ res.err = ErrUnknownType
          /\ QueueUpdateReturn(res) = ErrUnknownType
          /\ data = taken
    /\ \A i \in 1..Len(hist) :
         hist[i].ev = "reject" => ~Has("apply", hist[i].id)

\* C11 witness: readUpdates is sending the failure for an update of unknown
\* type while the map holds what the update before it put there.
C11_Witness ==
    /\ spc = "result"
    /\ cur.UpdateType = UnknownType
    /\ res = [ok |-> FALSE, err |-> ErrUnknownType]
    /\ Has("reject", CurId)
    /\ DOMAIN data # {}
    /\ ~Get(data, cur.Key).found

\* C12 (as claimed): a Set/Unset that returns an error has changed neither
\* the map nor the log file; one that returns nil is applied to the map and,
\* on a store with a log, has added its whole line to the file.  Stated for
\* the first call on a store, whose file is still the one NewStore found.
C12_AllOrNothing ==
    \A c \in Callers :
        (Returned(c) /\ Alone(c) /\ upd[c].result[2] = 1) =>
            /\ ret[c] # Nil =>
                 /\ data = before[c]
                 /\ logFile = prev.logFile
            /\ ret[c] = Nil =>
                 /\ Applied(upd[c], data)
                 /\ log = "open" => logFile = prev.logFile \o LogLine(upd[c])

\* C13: the updates that are submitted and not yet answered have pairwise
\* different result channels; the result readUpdates sends goes to the one
\* process that waits on the channel of the update readUpdates holds, which
\* is the process that submitted it; a mutation has one outcome, after its
\* one receive; a caller that is back got the outcome of its own mutation.
C13_OneOutcomeEach ==
    /\ \A p \in Procs, q \in Procs :
         (p # q /\ pc[p] \in {"send", "wait"} /\ pc[q] \in {"send", "wait"})
            => upd[p].result # upd[q].result
    /\ spc = "result" =>
         \E p \in Procs :
            /\ pc[p] = "wait"
            /\ upd[p] = cur
            /\ \A q \in Procs \ {p} : pc[q] # "wait" /\ upd[q].result # cur.result
    /\ LET n == Len(hist) IN
       (n > 0 /\ hist[n].ev \in {"ok", "fail"}) =>
          /\ Outcome(hist[n].id) = {n}
          /\ Cardinality(At("recv", hist[n].id)) = 1
    /\ \A c \in Callers :
         Returned(c) =>
            LET mine == {hist[i].ev : i \in {j \in 1..Len(hist) : hist[j].id = upd[c].result}}
            IN /\ Cardinality(Outcome(upd[c].result)) = 1
               /\ "apply" \in mine <=> ret[c] = Nil
               /\ "appendfail" \in mine <=> ret[c] \in AppendErrs
               /\ "reject" \in mine <=> ret[c] = ErrUnknownType

\* C13 witness: replay has got two outcomes on its one channel, and two
\* callers are back, one with nil and one with an error.
C13_Witness ==
    /\ Cardinality({i \in 1..Len(hist) :
                      hist[i].ev \in {"ok", "fail"} /\ hist[i].id[1] = Replay}) >= 2
    /\ \E c \in Callers, d \in Callers :
         /\ Returned(c) /\ ret[c] = Nil
         /\ Returned(d) /\ ret[d] # Nil
         /\ \E m \in At("recv", upd[d].result) : c \in hist[m].pend

\* C14: under SpecLive a caller that is inside Set/Unset is eventually back
\* from it, and readUpdates, whatever it is doing and whatever the result it
\* is sending, is eventually back at its receive.
C14_EveryCallReturns ==
    /\ \A c \in Callers : (pc[c] \in {"send", "wait"}) ~> (pc[c] = "idle")
    /\ (spc # "recv") ~> (spc = "recv")

\* C14 witness: readUpdates has rejected an update of unknown type and has
\* failed an append, and a caller is back with nil from a Set it made after
\* both.
C14_Witness ==
    \E c \in Callers :
        /\ Returned(c) /\ ret[c] = Nil
        /\ \E i \in 1..Len(hist), j \in 1..Len(hist), m \in At("recv", upd[c].result) :
             /\ hist[i].ev = "reject"
             /\ hist[j].ev = "appendfail"
             /\ i < m /\ j < m

\* The map after the switch of readUpdates has handled update u, and after
\* it has handled the updates of these lines one after the other.
ApplyRecord(d, u) ==
    CASE u.UpdateType = set -> MapSet(d, u.Key, u.Value)
      [] u.UpdateType = unset -> MapDelete(d, u.Key)
      [] OTHER -> d

RECURSIVE ApplyAll(_, _)
ApplyAll(d, lines) ==
    IF lines = <<>> THEN d
    ELSE ApplyAll(ApplyRecord(d, Unmarshal(Head(lines))), Tail(lines))

\* C15 (as claimed): on a store with a log, the lines added to the file since
\* NewStore are one per applied mutation with the append flag (and one more
\* while a mutation is appended and not yet applied); the map is what the
\* records of the whole file give when applied in order to an empty map, or
\* what all but the last give; when readUpdates is at its receive the map is
\* what the whole file gives.  Stated for behaviours without any I/O failure.
C15_LogMapConsistent ==
    (log = "open" /\ pc[Replay] = "ready" /\ faults = 0) =>
        LET lines == ScanLines(logFile)
            old == ScanLines(prev.logFile)
            applied == {i \in 1..Len(hist) : hist[i].ev = "apply" /\ hist[i].dur}
            added == Len(lines) - Len(old)
        IN /\ \A i \in 1..Len(lines) : Decodable(lines[i])
           /\ added = Cardinality(applied) \/ added = Cardinality(applied) + 1
           /\ \/ data = ApplyAll(EmptyMap, lines)
              \/ /\ lines # <<>>
                 /\ data = ApplyAll(EmptyMap, SubSeq(lines, 1, Len(lines) - 1))
           /\ spc = "recv" => /\ data = ApplyAll(EmptyMap, lines)
                              /\ added = Cardinality(applied)

\* C16 (as claimed): when a read of the log fails during the scan of replay,
\* NewStore returns the error and no store: no store is in use whose scanner
\* stopped on a read error, and none whose map holds only the records read
\* before the failure.
C16_ReadFailureIsFatal ==
    scanErr = ErrRead =>
        /\ pc[Replay] # "ready"
        /\ \A c \in Callers : pc[c] = "idle" /\ upd[c].result[2] = 0

\* C17: a read of the map is never made to wait for readUpdates (Get and
\* GetAll can begin whatever readUpdates is doing) and readUpdates never
\* waits for a read (it can write the map while a read is going on); a read
\* that no write overlapped gives what the map holds.
C17_ReadsUnserialized ==
    /\ (pc[Replay] = "ready" /\ rd.pc = "idle") =>
          ENABLED (\E k \in {HotKey, AllKeys} : GetBegin(k))
    /\ (rd.pc = "reading" /\ spc = "apply") => ENABLED ApplyUpdate
    /\ (rd.pc = "reading" /\ ~Overlapped) => rd.snap = data

\* C17 witness: a Get is still reading the map while readUpdates, working on
\* a Set, has written the map once since the read began and not yet given the
\* outcome; the map is no more what the read found.
C17_Witness ==
    /\ rd.pc = "reading"
    /\ rd.key = HotKey
    /\ Overlapped
    /\ spc = "result" /\ res.ok
    /\ cur.UpdateType = set
    /\ Writes = rd.at + 1
    /\ rd.snap # data

\* The records of these lines whose kind is set or unset.
KnownKind(lines) ==
    SelectSeq(lines, LAMBDA l : Unmarshal(l).UpdateType \in {set, unset})

\* C18: replay is not stopped by a well-formed record of an unknown kind.
\* NewStore fails only when the file cannot be opened or a line cannot be
\* decoded; readUpdates gives a failure for an update of unknown kind and
\* leaves the map as it took it; and whenever replay is between two records,
\* or done, the map is what the records scanned so far give with those of
\* unknown kind taken out.
C18_UnknownRecordSkipped ==
    LET lines == ScanLines(logFile)
    IN /\ pc[Replay] = "failed" =>
            \/ scanErr = ErrOpen
            \/ scanErr = ErrSyntax /\ ~Decodable(lines[scanIdx])
       /\ (spc = "result" /\ ~(cur.UpdateType \in {set, unset})) =>
            ~res.ok /\ data = taken
       /\ (Fresh /\ pc[Replay] \in {"scan", "send", "ready", "failed"}) =>
            data = ApplyAll(EmptyMap, KnownKind(SubSeq(lines, 1, scanIdx - 1)))

\* C18 witness: NewStore has given a store for a log with a Set of "a", a
\* record of unknown kind on "b" and a Set of "b"; replay got a failure for
\* the second record, went on to the third, and the map has both keys.
C18_Witness ==
    /\ pc[Replay] = "ready" /\ Fresh /\ log = "open"
    /\ ScanLines(logFile) = ScanLines(LogLine(RecSetAX) \o LogLine(RecUnknownB) \o LogLine(RecSetBX))
    /\ scanIdx = 4
    /\ \E i, j, m \in 1..Len(hist) :
         /\ i < j /\ j < m
         /\ hist[i].ev = "reject" /\ hist[j].ev = "fail" /\ hist[m].ev = "apply"
    /\ data = MapSet(MapSet(EmptyMap, "a", "x"), "b", "x")

\* A log replay can read to its end: every line is one complete record and
\* the last one has its newline.
WellFormed(file) ==
    /\ file = <<>> \/ file[Len(file)] = NL
    /\ \A i \in 1..Len(ScanLines(file)) : Decodable(ScanLines(file)[i])

\* C19 (as claimed): the file NewStore found being empty or well formed, the
\* log of the store holds only complete, well-formed record lines after any
\* Set/Unset calls, those whose append failed included.
C19_LogStaysReplayable ==
    (log = "open" /\ WellFormed(prev.logFile)) => WellFormed(logFile)

\* C20 (as claimed): a store with a log having stopped between two steps of
\* readUpdates, the store NewStore gives afterwards on the same path has the
\* map of the mutations acknowledged without error before the stop, or that
\* map followed by the one mutation readUpdates had appended and not yet
\* acknowledged.
C20_CrashRecovery ==
    (stopped.crashed /\ pc[Replay] = "ready" /\ Fresh) =>
        \/ data = stopped.acked
        \/ /\ stopped.spc \in {"apply", "result"}
           /\ stopped.cur.append
           /\ data = ApplyRecord(stopped.acked, stopped.cur)

====
